---- MODULE Spec2Model ----
(***************************************************************************)
(* The page-by-page rendering-and-assembly pipeline of cloudpdf:           *)
(*   generatePDFFromPages        (src/src/App.tsx, lines 339-409)          *)
(*   PDFGenerator.generateFromHTML (src/src/utils/pdfGenerator.ts, 25-72)  *)
(* One caller invokes one of the two functions at a time; every await and  *)
(* every library call that can throw is one step.                          *)
(***************************************************************************)
EXTENDS Integers, Sequences, FiniteSets, TLC

VARIABLES
    pc,          \* control point of the running function, "idle" between calls
    fn,          \* "pages" = generatePDFFromPages, "html" = generateFromHTML
    run,         \* number of calls started so far
    pages,       \* argument: the page fragments (for "html": the one fragment)
    filename,    \* the file name the document is saved under
    options,     \* argument of generateFromHTML: the caller's options object
    opts,        \* local of generateFromHTML: defaults merged with options
    pdf,         \* local: the jsPDF document
    isFirstPage, \* local of generatePDFFromPages
    idx,         \* position of the for..of iterator (1-based)
    tempDiv,     \* local: the temporary container of the page in progress
    canvas,      \* local: what html2canvas resolved to
    imgData,     \* local: the PNG data URL of the canvas
    blob,        \* local: pdf.output('blob')
    url,         \* local: URL.createObjectURL(blob)
    completion,  \* pending completion of the try block (normal, throw, return)
    outcome,     \* what the caller receives: nothing yet, a value, or an error
    body,        \* document.body: the set of containers attached to it
    saved,       \* files handed to the browser's download, in order
    serials,     \* every serialization of the document made in this call
    objectURLs,  \* object URLs created in this call, with the blob of each
    settled,     \* a container is attached and its sub-resources have loaded
    pdfUrl,      \* the caller's state: the URL it shows (useState pdfUrl)
    liveURLs,    \* the browser's object URLs that were not revoked
    log,         \* instrumentation: the events of this call, in order
    mounted,     \* the component on the page: "App" or "DynamicPDFGenerator"
    isGenerating, \* state of the mounted component (App.tsx 9, 466)
    error,       \* state of the mounted component (12, 468)
    success,     \* state of the mounted component (13, 469)
    htmlContent, \* App state (8): the text of the editor
    localContent, \* App state (11)
    pdfSnippets, \* DynamicPDFGenerator state (428): the snippet list
    snippetData, \* DynamicPDFGenerator state (459-464): templateData.snippetData
    showManualInput, \* DynamicPDFGenerator state (471): the input form is open
    now,         \* Date.now(), as far as the ids of new snippets need it
    pending      \* handlers suspended at an await, each with what it captured

vars == <<pc, fn, run, pages, filename, options, opts, pdf, isFirstPage, idx, tempDiv,
          canvas, imgData, blob, url, completion, outcome, body, saved,
          serials, objectURLs, settled, pdfUrl, liveURLs, log,
          mounted, isGenerating, error, success, htmlContent, localContent,
          pdfSnippets, snippetData, showManualInput, now, pending>>

\* The state of the components.
ui == <<mounted, isGenerating, error, success, htmlContent, localContent,
        pdfSnippets, snippetData, showManualInput, now, pending>>

\* The state of App, and of DynamicPDFGenerator, that generation leaves alone.
appState == <<htmlContent, localContent>>
dynState == <<pdfSnippets, snippetData, showManualInput, now>>

env == <<settled, pdfUrl, liveURLs>>

locals == <<opts, pdf, isFirstPage, idx, tempDiv, canvas, imgData, blob, url>>

\* The functions called on their own, with no component on the page.
NoComponent ==
    /\ mounted = "none"
    /\ isGenerating = FALSE
    /\ error = ""
    /\ success = ""
    /\ htmlContent = ""
    /\ localContent = ""
    /\ pdfSnippets = <<>>
    /\ snippetData = <<>>
    /\ showManualInput = FALSE
    /\ now = 0
    /\ pending = {}

-----------------------------------------------------------------------------
(* Bounds and inputs *)

MaxPages == 3
MaxRuns == 2

Contents == {"<cover/>", "<data/>", "<summary/>"}
Messages == {"tainted canvas", "timeout"}
PixelRatios == {1, 3}
FileNames == {"dynamic.pdf", "dynamic-report.pdf"}

PageLists == UNION {[1..n -> Contents] : n \in 0..MaxPages}

Undefined == [type |-> "undefined"]
Number(n) == [type |-> "number", n |-> n]

-----------------------------------------------------------------------------
(* Values *)

Normal == [type |-> "normal"]
Throw(e) == [type |-> "throw", error |-> e]
Return(v) == [type |-> "return", value |-> v]
Pending == [type |-> "pending"]

\* The error a component raises: its kind names the component it comes from.
LibError(kind, m) == [kind |-> kind, message |-> m]

RECURSIVE CountEv(_, _)
CountEv(s, e) ==
    IF s = <<>> THEN 0
    ELSE (IF Head(s) = e THEN 1 ELSE 0) + CountEv(Tail(s), e)

RECURSIVE CountKind(_, _)
CountKind(s, k) ==
    IF s = <<>> THEN 0
    ELSE (IF Head(s)[1] = k THEN 1 ELSE 0) + CountKind(Tail(s), k)

-----------------------------------------------------------------------------
(* The libraries, as the code uses them *)

\* new jsPDF({orientation, unit: 'mm', format: 'a4'}): a document that
\* already has its first page, with nothing on it.
NewJsPDF(orientation) ==
    [orientation |-> orientation, pages |-> << <<>> >>, cur |-> 1]

\* pdf.addPage(): a new empty page at the end, which becomes the current page.
AddPage(doc) ==
    [doc EXCEPT !.pages = Append(doc.pages, <<>>), !.cur = Len(doc.pages) + 1]

\* pdf.addImage(imgData, 'PNG', x, y, w, h): on the current page.
AddImage(doc, img, x, y, w, h) ==
    [doc EXCEPT !.pages[doc.cur] =
        Append(@, [img |-> img, x |-> x, y |-> y, w |-> w, h |-> h])]

\* html2canvas(node, {width, height, scale}): a canvas of width*scale by
\* height*scale device pixels showing the node's content.
Html2Canvas(node, width, height, scale) ==
    [src |-> node.html, w |-> width * scale, h |-> height * scale]

\* canvas.toDataURL('image/png', quality): the canvas, PNG-encoded.
ToDataURL(cv) == [format |-> "PNG", src |-> cv.src, w |-> cv.w, h |-> cv.h]

\* One serialization of the document: a new Blob object holding its pages.
Serialize(doc, n) == [id |-> n, bytes |-> doc.pages]

\* document.body.appendChild(node) / document.body.removeChild(node)
AppendChild(b, node) == b \cup {node}

RemoveChildNothing(b, node) == b

RemoveChild(b, node) == b \ {node}

-----------------------------------------------------------------------------
(* generatePDFFromPages(pages, filename)              src/src/App.tsx 339-409 *)

PortraitWidthPx == 794
PortraitHeightPx == 1123
CaptureScale == 2
PageWidthMm == 210
PageHeightMm == 297

\* 355-370: the temporary container of one page, not yet attached.
CreateTempDiv(html, id) ==
    [id |-> id, html |-> html, unit |-> "mm",
     width |-> PageWidthMm, height |-> PageHeightMm]

\* 375-382: the capture of one page.
CapturePage(node) ==
    Html2Canvas(node, PortraitWidthPx, PortraitHeightPx, CaptureScale)

\* 385-387: a new page unless this is the first one.
AddPageAlways(doc, first) == AddPage(doc)

AddPageIfFirst(doc, first) == IF first THEN AddPage(doc) ELSE doc

AddPageIfNotFirst(doc, first) == IF ~first THEN AddPage(doc) ELSE doc

\* 391-392: the image is placed on the current page, covering it.
PlaceOnPageWithMargin(doc, img) ==
    AddImage(doc, img, 10, 10, PageWidthMm - 20, PageHeightMm - 20)

PlaceOnPage(doc, img) == AddImage(doc, img, 0, 0, PageWidthMm, PageHeightMm)

\* 373-397: an exception thrown in the try block of one iteration runs the
\* finally block before it propagates.
OnThrowInTryNoFinally == "catch"

OnThrowInTry == "finally"

\* 373-398: where control goes after the finally block of one iteration: an
\* exception of the try block propagates, otherwise the loop goes on.
AfterFinallySwallow(c) == "loop"

AfterFinally(c) == IF c.type = "throw" THEN "catch" ELSE "loop"

\* 406-408: the catch clause wraps whatever was thrown in a new Error.
WrapError(e) ==
    [kind |-> "Error", message |-> "PDF generation failed: " \o e.message]

\* 339: a call; the locals of the new activation are unassigned.
Enter(p, f) ==
    /\ filename' = f
    /\ pc' = "import"
    /\ fn' = "pages"
    /\ pages' = p
    /\ options' = Undefined
    /\ opts' = Undefined
    /\ pdf' = Undefined
    /\ isFirstPage' = FALSE
    /\ idx' = 0
    /\ tempDiv' = Undefined
    /\ canvas' = Undefined
    /\ imgData' = Undefined
    /\ blob' = Undefined
    /\ url' = Undefined
    /\ completion' = Normal
    /\ outcome' = Pending
    /\ saved' = <<>>
    /\ serials' = <<>>
    /\ objectURLs' = <<>>
    /\ log' = <<>>
    /\ UNCHANGED body
    /\ UNCHANGED env

Call(p, f) ==
    /\ pc = "idle"
    /\ run < MaxRuns
    /\ run' = run + 1
    /\ Enter(p, f)
    /\ UNCHANGED ui

\* 341-342: the two dynamic imports resolve, or one of them rejects.
Import ==
    /\ pc = "import"
    /\ \/ /\ pc' = "newPdf"
          /\ UNCHANGED <<completion, log>>
       \/ \E m \in Messages :
            /\ completion' = Throw(LibError("ImportFailure", m))
            /\ log' = Append(log, <<"importFailed", 0>>)
            /\ pc' = "catch"
    /\ UNCHANGED <<fn, run, pages, filename, options, locals, outcome, body, saved,
                   serials, objectURLs>>
    /\ UNCHANGED env
    /\ UNCHANGED ui

\* 345-351: the document and the first-page flag; the iterator is created.
NewPdf ==
    /\ pc = "newPdf"
    /\ pdf' = NewJsPDF("portrait")
    /\ isFirstPage' = TRUE
    /\ idx' = 1
    /\ pc' = "loop"
    /\ UNCHANGED <<fn, run, pages, filename, options, opts, tempDiv, canvas, imgData,
                   blob, url, completion, outcome, body, saved, serials,
                   objectURLs, log>>
    /\ UNCHANGED env
    /\ UNCHANGED ui

\* 353: for (const pageHTML of pages): there is a next page.
LoopHasNextButLast(i, p) == i < Len(p)

LoopHasNext(i, p) == i <= Len(p)

\* 353-371: the next page, if any: its container is created and attached; the
\* sub-resources of its markup, if it has any, start loading.
Loop ==
    /\ pc = "loop"
    /\ IF LoopHasNext(idx, pages)
         THEN /\ tempDiv' = CreateTempDiv(pages[idx], <<run, idx>>)
              /\ settled' \in BOOLEAN
              /\ body' = AppendChild(body, tempDiv')
              /\ log' = Append(log, <<"create", idx>>)
              /\ completion' = Normal
              /\ pc' = "capture"
         ELSE /\ pc' = "save"
              /\ UNCHANGED <<tempDiv, body, log, completion, settled>>
    /\ UNCHANGED <<fn, run, pages, filename, options, opts, pdf, isFirstPage, idx,
                   canvas, imgData, blob, url, outcome, saved, serials,
                   objectURLs>>
    /\ UNCHANGED <<pdfUrl, liveURLs>>
    /\ UNCHANGED ui

\* 375: html2canvas(tempDiv, ...) is called, in the same turn of the event
\* loop that attached the container; the function is suspended at the await.
CaptureStart ==
    /\ pc = "capture"
    /\ log' = Append(log, <<"capture", idx>>)
    /\ pc' = "capturing"
    /\ UNCHANGED <<fn, run, pages, filename, options, locals, completion,
                   outcome, body, saved, serials, objectURLs, env>>
    /\ UNCHANGED ui

\* 375-382: await html2canvas(tempDiv, ...): resolves or rejects.
Capture ==
    /\ pc = "capturing"
    /\ \/ /\ canvas' = CapturePage(tempDiv)
          /\ log' = Append(log, <<"captured", idx>>)
          /\ pc' = "addPage"
          /\ UNCHANGED completion
       \/ \E m \in Messages :
            /\ completion' = Throw(LibError("RenderFailure", m))
            /\ log' = Append(log, <<"captureFailed", idx>>)
            /\ pc' = OnThrowInTry
            /\ UNCHANGED canvas
    /\ UNCHANGED <<fn, run, pages, filename, options, opts, pdf, isFirstPage, idx,
                   tempDiv, imgData, blob, url, outcome, body, saved,
                   serials, objectURLs>>
    /\ UNCHANGED env
    /\ UNCHANGED ui

\* 385-388
AddPageStep ==
    /\ pc = "addPage"
    /\ pdf' = AddPageIfNotFirst(pdf, isFirstPage)
    /\ isFirstPage' = FALSE
    /\ log' = IF pdf' # pdf THEN Append(log, <<"addPage", idx>>) ELSE log
    /\ pc' = "toDataURL"
    /\ UNCHANGED <<fn, run, pages, filename, options, opts, idx, tempDiv, canvas,
                   imgData, blob, url, completion, outcome, body, saved,
                   serials, objectURLs>>
    /\ UNCHANGED env
    /\ UNCHANGED ui

\* 391: canvas.toDataURL('image/png', 1.0); throws on a tainted canvas.
ToDataURLStep ==
    /\ pc = "toDataURL"
    /\ \/ /\ imgData' = ToDataURL(canvas)
          /\ pc' = "addImage"
          /\ UNCHANGED <<completion, log>>
       \/ \E m \in Messages :
            /\ completion' = Throw(LibError("RenderFailure", m))
            /\ log' = Append(log, <<"encodeFailed", idx>>)
            /\ pc' = OnThrowInTry
            /\ UNCHANGED imgData
    /\ UNCHANGED <<fn, run, pages, filename, options, opts, pdf, isFirstPage, idx,
                   tempDiv, canvas, blob, url, outcome, body, saved, serials,
                   objectURLs>>
    /\ UNCHANGED env
    /\ UNCHANGED ui

\* 392: pdf.addImage(imgData, 'PNG', 0, 0, 210, 297); may throw.
AddImageStep ==
    /\ pc = "addImage"
    /\ \/ /\ pdf' = PlaceOnPage(pdf, imgData)
          /\ log' = Append(log, <<"addImage", idx>>)
          /\ pc' = "finally"
          /\ UNCHANGED completion
       \/ \E m \in Messages :
            /\ completion' = Throw(LibError("AssemblyFailure", m))
            /\ log' = Append(log, <<"placeFailed", idx>>)
            /\ pc' = OnThrowInTry
            /\ UNCHANGED pdf
    /\ UNCHANGED <<fn, run, pages, filename, options, opts, isFirstPage, idx, tempDiv,
                   canvas, imgData, blob, url, outcome, body, saved, serials,
                   objectURLs>>
    /\ UNCHANGED env
    /\ UNCHANGED ui

\* 394-397: the completion of an iteration whose removeChild threw: the
\* NotFoundError replaces whatever the try block had completed with.
TeardownFailureSwallowed(c) == c

TeardownFailure(c) ==
    Throw(LibError("ResourceLeakGuardFailure", "NotFoundError"))

\* 394-397: document.body.removeChild(tempDiv), which throws NotFoundError
\* when tempDiv is no child of the body; then the pending completion.
Finally ==
    /\ pc = "finally"
    /\ IF tempDiv \in body
         THEN /\ body' = RemoveChild(body, tempDiv)
              /\ log' = Append(log, <<"destroy", idx>>)
              /\ UNCHANGED completion
         ELSE /\ completion' = TeardownFailure(completion)
              /\ log' = Append(log, <<"destroyFailed", idx>>)
              /\ UNCHANGED body
    /\ pc' = AfterFinally(completion')
    /\ idx' = IF pc' = "loop" THEN idx + 1 ELSE idx
    /\ UNCHANGED <<fn, run, pages, filename, options, opts, pdf, isFirstPage, tempDiv,
                   canvas, imgData, blob, url, outcome, saved, serials,
                   objectURLs>>
    /\ settled' = FALSE
    /\ UNCHANGED <<pdfUrl, liveURLs>>
    /\ UNCHANGED ui

\* 401: pdf.save(filename) serializes the document and hands the file to the
\* browser's download; may throw.
Save ==
    /\ pc = "save"
    /\ \/ LET b == Serialize(pdf, Len(serials) + 1) IN
            /\ serials' = Append(serials, b)
            /\ saved' = Append(saved, [name |-> filename, blob |-> b])
            /\ log' = Append(log, <<"save", 0>>)
            /\ pc' = "output"
            /\ UNCHANGED completion
       \/ \E m \in Messages :
            /\ completion' = Throw(LibError("PackagingFailure", m))
            /\ log' = Append(log, <<"saveFailed", 0>>)
            /\ pc' = "catch"
            /\ UNCHANGED <<serials, saved>>
    /\ UNCHANGED <<fn, run, pages, filename, options, locals, outcome, body,
                   objectURLs>>
    /\ UNCHANGED env
    /\ UNCHANGED ui

\* 402: pdf.output('blob') serializes the document into a Blob; may throw.
Output ==
    /\ pc = "output"
    /\ \/ /\ blob' = Serialize(pdf, Len(serials) + 1)
          /\ serials' = Append(serials, blob')
          /\ log' = Append(log, <<"output", 0>>)
          /\ pc' = "createURL"
          /\ UNCHANGED completion
       \/ \E m \in Messages :
            /\ completion' = Throw(LibError("PackagingFailure", m))
            /\ log' = Append(log, <<"outputFailed", 0>>)
            /\ pc' = "catch"
            /\ UNCHANGED <<blob, serials>>
    /\ UNCHANGED <<fn, run, pages, filename, options, opts, pdf, isFirstPage,
                   idx, tempDiv, canvas, imgData, url, outcome, body, saved,
                   objectURLs>>
    /\ UNCHANGED env
    /\ UNCHANGED ui

\* 403: URL.createObjectURL(blob): a new URL that refers to the blob.
CreateURL ==
    /\ pc = "createURL"
    /\ url' = [href |-> <<"blob:", run, Len(objectURLs) + 1>>]
    /\ objectURLs' = Append(objectURLs, [url |-> url', blob |-> blob])
    /\ log' = Append(log, <<"url", 0>>)
    /\ pc' = "return"
    /\ UNCHANGED <<fn, run, pages, filename, options, opts, pdf, isFirstPage,
                   idx, tempDiv, canvas, imgData, blob, completion, outcome,
                   body, saved, serials>>
    /\ liveURLs' = liveURLs \cup {url'.href}
    /\ UNCHANGED <<settled, pdfUrl>>
    /\ UNCHANGED ui

\* 405: return { blob, url }
ReturnStep ==
    /\ pc = "return"
    /\ outcome' = Return([blob |-> blob, url |-> url])
    /\ pc' = "done"
    /\ UNCHANGED <<fn, run, pages, filename, options, locals, completion,
                   body, saved, serials, objectURLs, log>>
    /\ UNCHANGED env
    /\ UNCHANGED ui

\* 406-408: catch (error) { throw new Error(...) }
Catch ==
    /\ pc = "catch"
    /\ outcome' = Throw(WrapError(completion.error))
    /\ pc' = "failed"
    /\ UNCHANGED <<fn, run, pages, filename, options, locals, completion,
                   body, saved, serials, objectURLs, log>>
    /\ UNCHANGED env
    /\ UNCHANGED ui

-----------------------------------------------------------------------------
(* PDFGenerator.generateFromHTML(htmlContent, options)                      *)
(*                                   src/src/utils/pdfGenerator.ts 25-72    *)

LandscapeWidthPx == 1123
LandscapeHeightPx == 794
LandscapeWidthMm == 297
LandscapeHeightMm == 210
DefaultScale == 2

\* 14-20
DefaultOptions ==
    [filename |-> "dynamic.pdf", format |-> "a4", orientation |-> "landscape",
     quality |-> Number(1), scale |-> Number(DefaultScale)]

\* The options objects a caller can pass: each key is absent or present, and
\* scale, when present, is a number or undefined.
OptionObjects ==
    { [k \in D |-> IF k = "orientation" THEN o ELSE s] :
        D \in SUBSET {"orientation", "scale"},
        o \in {"landscape", "portrait"},
        s \in {Number(1), Number(2), Undefined} }

\* 29: { ...this.defaultOptions, ...options }: every key present in options
\* wins, also one whose value is undefined.
SpreadMerge(d, o) ==
    [k \in DOMAIN d \cup DOMAIN o |-> IF k \in DOMAIN o THEN o[k] ELSE d[k]]

\* 102-118: the container, sized for the orientation, not yet attached.
CreateTempContainer(html, orientation, id) ==
    [id |-> id, html |-> html, unit |-> "px",
     width |-> IF orientation = "landscape"
                 THEN LandscapeWidthPx ELSE PortraitWidthPx,
     height |-> IF orientation = "landscape"
                  THEN LandscapeHeightPx ELSE PortraitHeightPx]

\* 36-43: the capture, at the scale of the merged options.
CaptureContainer(node, o, scale) ==
    Html2Canvas(node,
        IF o.orientation = "landscape" THEN LandscapeWidthPx ELSE PortraitWidthPx,
        IF o.orientation = "landscape" THEN LandscapeHeightPx ELSE PortraitHeightPx,
        scale)

\* 54-58: the image covers the page of the orientation.
PlaceOnSinglePageSwapped(doc, img, o) ==
    AddImage(doc, img, 0, 0,
        IF o.orientation = "landscape" THEN PageWidthMm ELSE LandscapeWidthMm,
        IF o.orientation = "landscape" THEN PageHeightMm ELSE LandscapeHeightMm)

PlaceOnSinglePage(doc, img, o) ==
    AddImage(doc, img, 0, 0,
        IF o.orientation = "landscape" THEN LandscapeWidthMm ELSE PageWidthMm,
        IF o.orientation = "landscape" THEN LandscapeHeightMm ELSE PageHeightMm)

\* 68-71: what the caller gets once the finally block has run: the pending
\* completion of the try block.
FinallyOutcomeDropThrow(c) == IF c.type = "throw" THEN Return(Undefined) ELSE c

FinallyOutcome(c) == c

\* 25-29: a call; the options are merged into the defaults.
EnterHTML(c, o) ==
    /\ pc' = "h_create"
    /\ fn' = "html"
    /\ pages' = <<c>>
    /\ options' = o
    /\ opts' = SpreadMerge(DefaultOptions, o)
    /\ filename' = opts'.filename
    /\ pdf' = Undefined
    /\ isFirstPage' = FALSE
    /\ idx' = 1
    /\ tempDiv' = Undefined
    /\ canvas' = Undefined
    /\ imgData' = Undefined
    /\ blob' = Undefined
    /\ url' = Undefined
    /\ completion' = Normal
    /\ outcome' = Pending
    /\ saved' = <<>>
    /\ serials' = <<>>
    /\ objectURLs' = <<>>
    /\ log' = <<>>
    /\ UNCHANGED body
    /\ UNCHANGED env

CallHTML(c, o) ==
    /\ pc = "idle"
    /\ run < MaxRuns
    /\ run' = run + 1
    /\ EnterHTML(c, o)
    /\ UNCHANGED ui

\* 32, 102-124: createTempContainer: the container is created and attached.
HCreate ==
    /\ pc = "h_create"
    /\ tempDiv' = CreateTempContainer(pages[1], opts.orientation, <<run, 1>>)
    /\ settled' \in BOOLEAN
    /\ body' = AppendChild(body, tempDiv')
    /\ log' = Append(log, <<"create", 1>>)
    /\ pc' = "h_capture"
    /\ UNCHANGED <<fn, run, pages, filename, options, opts, pdf, isFirstPage,
                   idx, canvas, imgData, blob, url, completion, outcome,
                   saved, serials, objectURLs>>
    /\ UNCHANGED <<pdfUrl, liveURLs>>
    /\ UNCHANGED ui

\* 36: html2canvas(container, ...) is called, in the same turn of the event
\* loop that attached the container; the function is suspended at the await.
HCaptureStart ==
    /\ pc = "h_capture"
    /\ log' = Append(log, <<"capture", 1>>)
    /\ pc' = "h_capturing"
    /\ UNCHANGED <<fn, run, pages, filename, options, locals, completion,
                   outcome, body, saved, serials, objectURLs, env>>
    /\ UNCHANGED ui

\* 36-43: await html2canvas(container, ...); with scale undefined the library
\* falls back to window.devicePixelRatio.
HCapture ==
    /\ pc = "h_capturing"
    /\ \/ \E r \in PixelRatios :
            /\ canvas' = CaptureContainer(tempDiv, opts,
                            IF opts.scale = Undefined THEN r ELSE opts.scale.n)
            /\ log' = Append(log, <<"captured", 1>>)
            /\ pc' = "h_newPdf"
            /\ UNCHANGED completion
       \/ \E m \in Messages :
            /\ completion' = Throw(LibError("RenderFailure", m))
            /\ log' = Append(log, <<"captureFailed", 1>>)
            /\ pc' = "h_finally"
            /\ UNCHANGED canvas
    /\ UNCHANGED <<fn, run, pages, filename, options, opts, pdf, isFirstPage,
                   idx, tempDiv, imgData, blob, url, outcome, body, saved,
                   serials, objectURLs>>
    /\ UNCHANGED env
    /\ UNCHANGED ui

\* 46-50
HNewPdf ==
    /\ pc = "h_newPdf"
    /\ pdf' = NewJsPDF(opts.orientation)
    /\ pc' = "h_toDataURL"
    /\ UNCHANGED <<fn, run, pages, filename, options, opts, isFirstPage, idx,
                   tempDiv, canvas, imgData, blob, url, completion, outcome,
                   body, saved, serials, objectURLs, log>>
    /\ UNCHANGED env
    /\ UNCHANGED ui

\* 53: canvas.toDataURL('image/png', opts.quality); throws on a tainted canvas.
HToDataURL ==
    /\ pc = "h_toDataURL"
    /\ \/ /\ imgData' = ToDataURL(canvas)
          /\ pc' = "h_addImage"
          /\ UNCHANGED <<completion, log>>
       \/ \E m \in Messages :
            /\ completion' = Throw(LibError("RenderFailure", m))
            /\ log' = Append(log, <<"encodeFailed", 1>>)
            /\ pc' = "h_finally"
            /\ UNCHANGED imgData
    /\ UNCHANGED <<fn, run, pages, filename, options, opts, pdf, isFirstPage,
                   idx, tempDiv, canvas, blob, url, outcome, body, saved,
                   serials, objectURLs>>
    /\ UNCHANGED env
    /\ UNCHANGED ui

\* 54-58: pdf.addImage(imgData, 'PNG', 0, 0, pdfWidth, pdfHeight); may throw.
HAddImage ==
    /\ pc = "h_addImage"
    /\ \/ /\ pdf' = PlaceOnSinglePage(pdf, imgData, opts)
          /\ log' = Append(log, <<"addImage", 1>>)
          /\ pc' = "h_output"
          /\ UNCHANGED completion
       \/ \E m \in Messages :
            /\ completion' = Throw(LibError("AssemblyFailure", m))
            /\ log' = Append(log, <<"placeFailed", 1>>)
            /\ pc' = "h_finally"
            /\ UNCHANGED pdf
    /\ UNCHANGED <<fn, run, pages, filename, options, opts, isFirstPage, idx,
                   tempDiv, canvas, imgData, blob, url, outcome, body, saved,
                   serials, objectURLs>>
    /\ UNCHANGED env
    /\ UNCHANGED ui

\* 61: pdf.output('blob'); may throw.
HOutput ==
    /\ pc = "h_output"
    /\ \/ /\ blob' = Serialize(pdf, Len(serials) + 1)
          /\ serials' = Append(serials, blob')
          /\ log' = Append(log, <<"output", 0>>)
          /\ pc' = "h_createURL"
          /\ UNCHANGED completion
       \/ \E m \in Messages :
            /\ completion' = Throw(LibError("PackagingFailure", m))
            /\ log' = Append(log, <<"outputFailed", 0>>)
            /\ pc' = "h_finally"
            /\ UNCHANGED <<blob, serials>>
    /\ UNCHANGED <<fn, run, pages, filename, options, opts, pdf, isFirstPage,
                   idx, tempDiv, canvas, imgData, url, outcome, body, saved,
                   objectURLs>>
    /\ UNCHANGED env
    /\ UNCHANGED ui

\* 62: URL.createObjectURL(blob)
HCreateURL ==
    /\ pc = "h_createURL"
    /\ url' = [href |-> <<"blob:", run, Len(objectURLs) + 1>>]
    /\ objectURLs' = Append(objectURLs, [url |-> url', blob |-> blob])
    /\ log' = Append(log, <<"url", 0>>)
    /\ pc' = "h_save"
    /\ UNCHANGED <<fn, run, pages, filename, options, opts, pdf, isFirstPage,
                   idx, tempDiv, canvas, imgData, blob, completion, outcome,
                   body, saved, serials>>
    /\ liveURLs' = liveURLs \cup {url'.href}
    /\ UNCHANGED <<settled, pdfUrl>>
    /\ UNCHANGED ui

\* 65-67: pdf.save(opts.filename) serializes the document again and hands the
\* file to the download (may throw); then return { blob, url }.
HSave ==
    /\ pc = "h_save"
    /\ \/ LET b == Serialize(pdf, Len(serials) + 1) IN
            /\ serials' = Append(serials, b)
            /\ saved' = Append(saved, [name |-> filename, blob |-> b])
            /\ log' = Append(log, <<"save", 0>>)
            /\ completion' = Return([blob |-> blob, url |-> url])
       \/ \E m \in Messages :
            /\ completion' = Throw(LibError("PackagingFailure", m))
            /\ log' = Append(log, <<"saveFailed", 0>>)
            /\ UNCHANGED <<serials, saved>>
    /\ pc' = "h_finally"
    /\ UNCHANGED <<fn, run, pages, filename, options, locals, outcome, body,
                   objectURLs>>
    /\ UNCHANGED env
    /\ UNCHANGED ui

\* 68-71: document.body.removeChild(container); then the pending completion
\* reaches the caller.
HFinally ==
    /\ pc = "h_finally"
    /\ IF tempDiv \in body
         THEN /\ body' = RemoveChild(body, tempDiv)
              /\ log' = Append(log, <<"destroy", 1>>)
              /\ outcome' = FinallyOutcome(completion)
         ELSE /\ outcome' = FinallyOutcome(TeardownFailure(completion))
              /\ log' = Append(log, <<"destroyFailed", 1>>)
              /\ UNCHANGED body
    /\ pc' = IF outcome'.type = "throw" THEN "failed" ELSE "done"
    /\ UNCHANGED <<fn, run, pages, filename, options, locals, completion,
                   saved, serials, objectURLs>>
    /\ settled' = FALSE
    /\ UNCHANGED <<pdfUrl, liveURLs>>
    /\ UNCHANGED ui

-----------------------------------------------------------------------------
(* The callers and the browser *)

\* App.tsx 41-47, 62-72, 871-873: the caller's await resumes: on a result it
\* stores result.url in its state (setPdfUrl), on an error it shows a message.
\* The activation of the function that returned is gone.
Exit ==
    /\ pc' = "idle"
    /\ fn' = "pages"
    /\ pages' = <<>>
    /\ filename' = "dynamic.pdf"
    /\ options' = Undefined
    /\ opts' = Undefined
    /\ pdf' = Undefined
    /\ isFirstPage' = FALSE
    /\ idx' = 0
    /\ tempDiv' = Undefined
    /\ canvas' = Undefined
    /\ imgData' = Undefined
    /\ blob' = Undefined
    /\ url' = Undefined
    /\ completion' = Normal
    /\ outcome' = Pending
    /\ saved' = <<>>
    /\ serials' = <<>>
    /\ objectURLs' = <<>>
    /\ log' = <<>>
    /\ UNCHANGED <<run, body, settled, liveURLs>>

\* The caller's await resumes; it keeps the URL of a result.
Receive ==
    /\ pc \in {"done", "failed"}
    /\ pdfUrl' = IF outcome.type = "return" THEN outcome.value.url ELSE pdfUrl
    /\ Exit
    /\ UNCHANGED ui

\* The browser, while the function is suspended at the await of html2canvas:
\* the sub-resources of the attached container finish loading.
Settle ==
    /\ pc \in {"capturing", "h_capturing"}
    /\ ~settled
    /\ settled' = TRUE
    /\ UNCHANGED <<pc, fn, run, pages, filename, options, locals, completion,
                   outcome, body, saved, serials, objectURLs, pdfUrl,
                   liveURLs, log>>
    /\ UNCHANGED ui

Init ==
    /\ pc = "idle"
    /\ fn = "pages"
    /\ run = 0
    /\ pages = <<>>
    /\ filename = "dynamic.pdf"
    /\ options = Undefined
    /\ opts = Undefined
    /\ pdf = Undefined
    /\ isFirstPage = FALSE
    /\ idx = 0
    /\ tempDiv = Undefined
    /\ canvas = Undefined
    /\ imgData = Undefined
    /\ blob = Undefined
    /\ url = Undefined
    /\ completion = Normal
    /\ outcome = Pending
    /\ body = {}
    /\ saved = <<>>
    /\ serials = <<>>
    /\ objectURLs = <<>>
    /\ settled = FALSE
    /\ pdfUrl = Undefined
    /\ liveURLs = {}
    /\ log = <<>>
    /\ NoComponent

Next ==
    \/ \E p \in PageLists, f \in FileNames : Call(p, f)
    \/ Import
    \/ NewPdf
    \/ Loop
    \/ CaptureStart
    \/ Capture
    \/ AddPageStep
    \/ ToDataURLStep
    \/ AddImageStep
    \/ Finally
    \/ Save
    \/ Output
    \/ CreateURL
    \/ ReturnStep
    \/ Catch
    \/ \E c \in Contents, o \in OptionObjects : CallHTML(c, o)
    \/ HCreate
    \/ HCaptureStart
    \/ HCapture
    \/ HNewPdf
    \/ HToDataURL
    \/ HAddImage
    \/ HOutput
    \/ HCreateURL
    \/ HSave
    \/ HFinally
    \/ Receive
    \/ Settle

Spec == Init /\ [][Next]_vars

\* The assembling step (385-392) taken on its own: the first iteration of a
\* run of generatePDFFromPages stands after its capture, holding a canvas of
\* any of these sizes, whatever produced it.
AnyCanvasSizes == {<<1588, 2246>>, <<2246, 1588>>, <<100, 100>>}

AssemblerInit ==
    /\ pc = "addPage"
    /\ fn = "pages"
    /\ run = 1
    /\ pages \in {p \in PageLists : Len(p) >= 1}
    /\ filename = "dynamic.pdf"
    /\ options = Undefined
    /\ opts = Undefined
    /\ pdf = NewJsPDF("portrait")
    /\ isFirstPage = TRUE
    /\ idx = 1
    /\ tempDiv = CreateTempDiv(pages[1], <<1, 1>>)
    /\ \E d \in AnyCanvasSizes :
         canvas = [src |-> pages[1], w |-> d[1], h |-> d[2]]
    /\ imgData = Undefined
    /\ blob = Undefined
    /\ url = Undefined
    /\ completion = Normal
    /\ outcome = Pending
    /\ body = {tempDiv}
    /\ saved = <<>>
    /\ serials = <<>>
    /\ objectURLs = <<>>
    /\ settled = TRUE
    /\ pdfUrl = Undefined
    /\ liveURLs = {}
    /\ log = << <<"create", 1>>, <<"capture", 1>>, <<"captured", 1>> >>
    /\ NoComponent

SpecAssembler == AssemblerInit /\ [][Next]_vars

\* Other code of the page (a script, an extension) removes the container from
\* the body while the function is suspended at its await.
ExternalDetach ==
    /\ pc \in {"capturing", "h_capturing"}
    /\ tempDiv \in body
    /\ body' = body \ {tempDiv}
    /\ UNCHANGED <<pc, fn, run, pages, filename, options, locals, completion,
                   outcome, saved, serials, objectURLs, env, log>>
    /\ UNCHANGED ui

NextDetach == Next \/ ExternalDetach

SpecDetach == Init /\ [][NextDetach]_vars

\* The steps the running function takes by itself: a promise that was started
\* settles (each capture completes or fails) and the statements that follow
\* an await run; only the calls are up to the user.
RunStep ==
    \/ Import \/ NewPdf \/ Loop \/ CaptureStart \/ Capture \/ AddPageStep
    \/ ToDataURLStep \/ AddImageStep \/ Finally \/ Save \/ Output
    \/ CreateURL \/ ReturnStep \/ Catch
    \/ HCreate \/ HCaptureStart \/ HCapture \/ HNewPdf \/ HToDataURL
    \/ HAddImage \/ HOutput \/ HCreateURL \/ HSave \/ HFinally

FairSpec == Spec /\ WF_vars(RunStep)

-----------------------------------------------------------------------------
(* Vocabulary of the properties *)

Terminal == pc \in {"done", "failed"}
NumEv(kind) == CountKind(log, kind)
Creates(i) == CountEv(log, <<"create", i>>)
Destroys(i) == CountEv(log, <<"destroy", i>>)
Captures(i) == CountEv(log, <<"capture", i>>)
PageIndexes == 1..(MaxPages + 1)

FailureEvents ==
    {"importFailed", "captureFailed", "encodeFailed", "placeFailed",
     "destroyFailed", "saveFailed", "outputFailed"}
SomethingThrew == \E k \in FailureEvents : NumEv(k) > 0

\* Every page of a serialized document holds exactly the image of the input
\* fragment of the same position.
HoldsPagesInOrder(bytes, input) ==
    /\ Len(bytes) = Len(input)
    /\ \A i \in 1..Len(input) :
         /\ Len(bytes[i]) = 1
         /\ bytes[i][1].img.src = input[i]

-----------------------------------------------------------------------------
(* The components: the snippets of DynamicPDFGenerator   src/src/App.tsx 427-622 *)

MaxAdds == 1
MaxLoads == 1

\* What the functions of the pipeline keep in their variables.
pipeline == <<pc, fn, run, pages, filename, options, locals, completion,
              outcome, body, saved, serials, objectURLs, env, log>>

ManualUrl == "manual-input"
DriveUrl ==
    "https://drive.google.com/file/d/1PljJLvqJ6MIVjvAXdiY11oIMwuYYLLwe/view?usp=sharing"

\* 428-457
InitialSnippets ==
    << [id |-> "1", name |-> "Manual JSON Input", url |-> ManualUrl,
        isActive |-> TRUE, data |-> Undefined],
       [id |-> "2", name |-> "Sample Posts Data",
        url |-> "https://jsonplaceholder.typicode.com/posts/1",
        isActive |-> FALSE, data |-> Undefined],
       [id |-> "3", name |-> "Sample User Data",
        url |-> "https://jsonplaceholder.typicode.com/users/1",
        isActive |-> FALSE, data |-> Undefined],
       [id |-> "4", name |-> "Google Drive (Your File)", url |-> DriveUrl,
        isActive |-> FALSE, data |-> Undefined] >>

\* What the user can type: a name and a URL of a new source, the manual data.
NewNames == {"Sample Posts Data"}
NewUrls == {"https://example.com/data.json"}
ManualTexts == {"", "{\"a\": 1}"}
\* What a fetch can deliver.
Payloads == {[type |-> "JSON", value |-> "payload"]}

SeqRange(q) == {q[i] : i \in 1..Len(q)}
SeqMap(q, F(_)) == [i \in 1..Len(q) |-> F(q[i])]

\* 512-515, 582-585: the entry of that name replaced, the new one last.
PutSnippetData(list, info) ==
    Append(SelectSeq(list, LAMBDA e : e.name # info.name), info)

\* 933-934: while the manual input form is open it covers the page (fixed
\* inset-0), so the controls under it cannot be clicked.
PageClickable == ~showManualInput

\* 618-622
ToggleSnippet(s) ==
    /\ mounted = "DynamicPDFGenerator"
    /\ PageClickable
    /\ s \in SeqRange(pdfSnippets)
    /\ pdfSnippets' = SeqMap(pdfSnippets,
          LAMBDA e : IF e.id = s.id THEN [e EXCEPT !.isActive = ~e.isActive]
                                    ELSE e)
    /\ UNCHANGED <<mounted, isGenerating, error, success, appState,
                   snippetData, showManualInput, now, pending>>
    /\ UNCHANGED pipeline

\* The calls of loadSnippetData suspended at their fetch.
LoadsInFlight == {h \in pending : h.handler = "loadSnippetData"}

\* 526-545, 1045-1046: click on a snippet's load button, up to the await.
LoadSnippetData(s) ==
    /\ mounted = "DynamicPDFGenerator"
    /\ PageClickable
    /\ s \in SeqRange(pdfSnippets)
    /\ s.isActive
    /\ IF s.url = ManualUrl
         THEN /\ showManualInput' = TRUE
              /\ UNCHANGED <<error, success, pending>>
         ELSE IF s.url = DriveUrl
           THEN /\ error' = "Google Drive files cannot be accessed directly due to CORS restrictions."
                /\ UNCHANGED <<success, showManualInput, pending>>
           ELSE /\ Cardinality(LoadsInFlight) < MaxLoads
                /\ error' = ""
                /\ success' = "Loading data..."
                /\ pending' = pending \cup
                     {[handler |-> "loadSnippetData",
                       snippet |-> [id |-> s.id, name |-> s.name,
                                    url |-> s.url]]}
                /\ UNCHANGED showManualInput
    /\ UNCHANGED <<mounted, isGenerating, appState, pdfSnippets, snippetData,
                   now>>
    /\ UNCHANGED pipeline

\* 547-590: the fetch settles: the data is stored in the snippet of that id
\* and in templateData.snippetData, or the error is shown.
LoadSnippetDone(h) ==
    /\ h \in LoadsInFlight
    /\ \/ \E d \in Payloads :
            /\ pdfSnippets' = SeqMap(pdfSnippets,
                  LAMBDA e : IF e.id = h.snippet.id THEN [e EXCEPT !.data = d]
                                                    ELSE e)
            /\ snippetData' = PutSnippetData(snippetData,
                  [name |-> h.snippet.name, url |-> h.snippet.url, data |-> d])
            /\ success' = "Successfully loaded data from " \o h.snippet.name
            /\ UNCHANGED error
       \/ /\ error' = "Failed to load " \o h.snippet.name \o ": Failed to fetch"
          /\ UNCHANGED <<pdfSnippets, snippetData, success>>
    /\ pending' = pending \ {h}
    /\ UNCHANGED <<mounted, isGenerating, appState, showManualInput, now>>
    /\ UNCHANGED pipeline

\* 477-523: "Load Data" of the manual input form, with the text typed.
HandleManualJsonInput(t) ==
    /\ mounted = "DynamicPDFGenerator"
    /\ showManualInput
    /\ IF t = ""
         THEN /\ error' = "Please enter some JSON data"
              /\ UNCHANGED <<pdfSnippets, snippetData, success,
                             showManualInput>>
         ELSE LET data == [type |-> "JSON", value |-> t] IN
              /\ pdfSnippets' = SeqMap(pdfSnippets,
                    LAMBDA e : IF e.url = ManualUrl
                                 THEN [e EXCEPT !.data = data,
                                                !.isActive = TRUE]
                                 ELSE e)
              /\ snippetData' = PutSnippetData(snippetData,
                    [name |-> "Manual JSON Input", url |-> ManualUrl,
                     data |-> data])
              /\ success' = "Manual data loaded successfully!"
              /\ showManualInput' = FALSE
              /\ UNCHANGED error
    /\ UNCHANGED <<mounted, isGenerating, appState, now, pending>>
    /\ UNCHANGED pipeline

\* 939, 972: the form is closed.
CloseManualInput ==
    /\ mounted = "DynamicPDFGenerator"
    /\ showManualInput
    /\ showManualInput' = FALSE
    /\ UNCHANGED <<mounted, isGenerating, error, success, appState,
                   pdfSnippets, snippetData, now, pending>>
    /\ UNCHANGED pipeline

\* 594-609: "Add Source" with a name and a URL typed in.
AddSnippet(name, u) ==
    /\ mounted = "DynamicPDFGenerator"
    /\ PageClickable
    /\ now < MaxAdds
    /\ now' = now + 1
    /\ pdfSnippets' = Append(pdfSnippets,
          [id |-> "t" \o ToString(now'), name |-> name, url |-> u,
           isActive |-> TRUE, data |-> Undefined])
    /\ success' = "Added new snippet: " \o name
    /\ UNCHANGED <<mounted, isGenerating, error, appState, snippetData,
                   showManualInput, pending>>
    /\ UNCHANGED pipeline

\* 612-615
RemoveSnippet(s) ==
    /\ mounted = "DynamicPDFGenerator"
    /\ PageClickable
    /\ s \in SeqRange(pdfSnippets)
    /\ pdfSnippets' = SelectSeq(pdfSnippets, LAMBDA e : e.id # s.id)
    /\ success' = "Snippet removed"
    /\ UNCHANGED <<mounted, isGenerating, error, appState, snippetData,
                   showManualInput, now, pending>>
    /\ UNCHANGED pipeline

-----------------------------------------------------------------------------
(* The components: the editor of App                   src/src/App.tsx 8-33 *)

\* What fetch('http://localhost:5173/sample.pdf') can deliver.
LocalFiles == {"sample-a", "sample-b"}

\* The text of the editor: a sequence of pieces, the placeholder being one.
Placeholder == "{{LOCAL_CONTENT}}"

\* 8: PDFGenerator.getSampleTemplate() (pdfGenerator.ts 164-196)
SampleTemplate == <<"<h1>Dynamic PDF Report</h1>", Placeholder, "<p>System Info</p>">>

\* What the user can turn the text into.
Edits ==
    { <<"<h1>My Report</h1>", Placeholder>>,
      <<Placeholder, "<hr/>", Placeholder>>,
      <<"<p>plain</p>">> }

\* String.prototype.replace with a string pattern: the first occurrence only.
RECURSIVE ReplaceFirst(_, _, _)
ReplaceFirst(text, pattern, by) ==
    IF text = <<>> THEN <<>>
    ELSE IF Head(text) = pattern THEN <<by>> \o Tail(text)
    ELSE <<Head(text)>> \o ReplaceFirst(Tail(text), pattern, by)

\* 25: what the placeholder is replaced with.
LoadedText(content) == "Loaded from localhost/sample.pdf:\n" \o content

\* The calls of loadLocalFile suspended at their fetch.
LocalLoadsInFlight == {h \in pending : h.handler = "loadLocalFile"}

\* 142: the user edits the text.
EditHtml(h) ==
    /\ mounted = "App"
    /\ htmlContent' = h
    /\ UNCHANGED <<mounted, isGenerating, error, success, localContent,
                   dynState, pending>>
    /\ UNCHANGED pipeline

\* 16-18, 119: click on "Load Local File", up to the await; the handler is
\* the closure of the render that drew the button, with that render's
\* htmlContent.
LoadLocalFile ==
    /\ mounted = "App"
    /\ Cardinality(LocalLoadsInFlight) < MaxLoads
    /\ error' = ""
    /\ pending' = pending \cup
         {[handler |-> "loadLocalFile", htmlContent |-> htmlContent]}
    /\ UNCHANGED <<mounted, isGenerating, success, appState, dynState>>
    /\ UNCHANGED pipeline

\* 19-32: the fetch settles.
LoadLocalFileDone(h) ==
    /\ h \in LocalLoadsInFlight
    /\ \/ \E c \in LocalFiles :
            /\ localContent' = c
            /\ success' = "Local file loaded successfully!"
            /\ htmlContent' = ReplaceFirst(h.htmlContent, Placeholder,
                                           LoadedText(c))
            /\ UNCHANGED error
       \/ /\ error' = "Failed to load local file: Could not load file from http://localhost:5173/sample.pdf"
          /\ localContent' = ""
          /\ UNCHANGED <<success, htmlContent>>
    /\ pending' = pending \ {h}
    /\ UNCHANGED <<mounted, isGenerating, dynState>>
    /\ UNCHANGED pipeline

-----------------------------------------------------------------------------
(* The components: generation                src/src/App.tsx 36-78, 858-879 *)

GenHandlers == {"generatePDF", "generateWithLocalContent", "generateDynamicPDF"}

\* 864-868: generateCoverPage(), generateDataPage(), generateSummaryPage()
DynamicPages == <<"<cover/>", "<data/>", "<summary/>">>

\* 42-43, 66-67: the options both handlers of App pass.
AppOptions == [filename |-> "dynamic.pdf", orientation |-> "landscape"]

\* pdfGenerator.ts 139-142: the template with the placeholder replaced.
ProcessedTemplate(content) == "<template>" \o content \o "</template>"

\* 127, 151, 920: disabled={isGenerating}
ButtonAlwaysEnabled(generating) == TRUE

ButtonEnabled(generating) == ~generating

\* The run handlers started and not yet finished.
GenerationsInFlight == {h \in pending : h.handler \in GenHandlers}

\* 36-44: click on "Generate PDF", up to the await.
GeneratePDF ==
    /\ mounted = "App"
    /\ ButtonEnabled(isGenerating)
    /\ run < MaxRuns
    /\ run' = run + 1
    /\ isGenerating' = TRUE
    /\ error' = ""
    /\ EnterHTML(htmlContent, AppOptions)
    /\ pending' = pending \cup {[handler |-> "generatePDF", n |-> run']}
    /\ UNCHANGED <<mounted, success, appState, dynState>>

\* 56-69: click on "Generate with Local Content", up to the await;
\* PDFGenerator.generateWithLocalContent starts the fetch of the local file.
GenerateWithLocalContent ==
    /\ mounted = "App"
    /\ ButtonEnabled(isGenerating)
    /\ run < MaxRuns
    /\ run' = run + 1
    /\ isGenerating' = TRUE
    /\ error' = ""
    /\ pc' = "lc_load"
    /\ fn' = "html"
    /\ outcome' = Pending
    /\ pending' = pending \cup {[handler |-> "generateWithLocalContent",
                                 n |-> run']}
    /\ UNCHANGED <<pages, filename, options, locals, completion, body, saved,
                   serials, objectURLs, env, log>>
    /\ UNCHANGED <<mounted, success, appState, dynState>>

\* pdfGenerator.ts 134-149 with 77-97: the local file arrives and
\* generateFromHTML is called on the processed template, or the load fails
\* and the error is rethrown.
LocalContentLoad ==
    /\ pc = "lc_load"
    /\ \/ \E c \in LocalFiles :
            /\ EnterHTML(ProcessedTemplate(c), AppOptions)
            /\ UNCHANGED run
       \/ /\ outcome' = Throw(LibError("Error",
                "Could not load file from http://localhost:5173/sample.pdf"))
          /\ pc' = "failed"
          /\ UNCHANGED <<fn, run, pages, filename, options, locals,
                         completion, body, saved, serials, objectURLs, env,
                         log>>
    /\ UNCHANGED ui

\* 858-871: click on "Generate PDF" of DynamicPDFGenerator, up to the await.
GenerateDynamicPDF ==
    /\ mounted = "DynamicPDFGenerator"
    /\ ButtonEnabled(isGenerating)
    /\ run < MaxRuns
    /\ run' = run + 1
    /\ isGenerating' = TRUE
    /\ error' = ""
    /\ Enter(DynamicPages, "dynamic-report.pdf")
    /\ pending' = pending \cup {[handler |-> "generateDynamicPDF", n |-> run']}
    /\ UNCHANGED <<mounted, success, appState, dynState>>

\* 47, 72, 873
SuccessMessage(handler) ==
    CASE handler = "generatePDF" ->
           "PDF generated and downloaded as dynamic.pdf!"
      [] handler = "generateWithLocalContent" ->
           "PDF with local content generated and downloaded!"
      [] OTHER -> "Dynamic PDF generated successfully! Check your downloads."

\* 49, 74, 875
FailureMessage(handler, e) ==
    IF handler = "generateWithLocalContent"
      THEN "Failed to generate PDF with local content: " \o e.message
      ELSE "Failed to generate PDF: " \o e.message

\* 51, 76, 877: finally { setIsGenerating(false) }
AfterRunStaysGenerating(generating) == generating

AfterRun(generating) == FALSE

\* 46-52, 71-77, 872-878: the handler resumes after its await: the result's
\* URL and a success message, or an error message; then the finally block.
Resume(h) ==
    /\ h \in GenerationsInFlight
    /\ pc \in {"done", "failed"}
    /\ IF outcome.type = "return"
         THEN /\ pdfUrl' = outcome.value.url
              /\ success' = SuccessMessage(h.handler)
              /\ UNCHANGED error
         ELSE /\ error' = FailureMessage(h.handler, outcome.error)
              /\ UNCHANGED <<pdfUrl, success>>
    /\ isGenerating' = AfterRun(isGenerating)
    /\ pending' = pending \ {h}
    /\ Exit
    /\ UNCHANGED <<mounted, appState, dynState>>

\* Component m is on the page, in its initial state (8-13; 428-474).
ComponentInit(m) ==
    /\ pc = "idle"
    /\ fn = "pages"
    /\ run = 0
    /\ pages = <<>>
    /\ filename = "dynamic.pdf"
    /\ options = Undefined
    /\ opts = Undefined
    /\ pdf = Undefined
    /\ isFirstPage = FALSE
    /\ idx = 0
    /\ tempDiv = Undefined
    /\ canvas = Undefined
    /\ imgData = Undefined
    /\ blob = Undefined
    /\ url = Undefined
    /\ completion = Normal
    /\ outcome = Pending
    /\ body = {}
    /\ saved = <<>>
    /\ serials = <<>>
    /\ objectURLs = <<>>
    /\ settled = FALSE
    /\ pdfUrl = Undefined
    /\ liveURLs = {}
    /\ log = <<>>
    /\ mounted = m
    /\ isGenerating = FALSE
    /\ error = ""
    /\ success = ""
    /\ htmlContent = IF m = "App" THEN SampleTemplate ELSE <<>>
    /\ localContent = ""
    /\ pdfSnippets = IF m = "DynamicPDFGenerator" THEN InitialSnippets ELSE <<>>
    /\ snippetData = <<>>
    /\ showManualInput = FALSE
    /\ now = 0
    /\ pending = {}

GenerateInit == \E m \in {"App", "DynamicPDFGenerator"} : ComponentInit(m)

GenerateNext ==
    \/ GeneratePDF
    \/ GenerateWithLocalContent
    \/ LocalContentLoad
    \/ GenerateDynamicPDF
    \/ \E h \in pending : Resume(h)
    \/ RunStep
    \/ Settle

SpecGenerate == GenerateInit /\ [][GenerateNext]_vars

FairSpecGenerate ==
    SpecGenerate /\ WF_vars(RunStep \/ LocalContentLoad
                            \/ \E h \in pending : Resume(h))

\* DynamicPDFGenerator on the page, the user working on the snippets.
SnippetsInit == ComponentInit("DynamicPDFGenerator")

SnippetsNext ==
    \/ \E s \in SeqRange(pdfSnippets) : ToggleSnippet(s)
    \/ \E s \in SeqRange(pdfSnippets) : LoadSnippetData(s)
    \/ \E h \in pending : LoadSnippetDone(h)
    \/ \E t \in ManualTexts : HandleManualJsonInput(t)
    \/ CloseManualInput
    \/ \E name \in NewNames, u \in NewUrls : AddSnippet(name, u)
    \/ \E s \in SeqRange(pdfSnippets) : RemoveSnippet(s)

SpecSnippets == SnippetsInit /\ [][SnippetsNext]_vars

\* App on the page, the user editing the text and loading the local file.
EditorInit == ComponentInit("App")

EditorNext ==
    \/ \E h \in Edits : EditHtml(h)
    \/ LoadLocalFile
    \/ \E h \in pending : LoadLocalFileDone(h)

SpecEditor == EditorInit /\ [][EditorNext]_vars

-----------------------------------------------------------------------------
(* Properties *)

\* C1: when generatePDFFromPages succeeds on N >= 1 fragments, page i of the
\* document it returns holds the image captured from fragment i, for every i:
\* nothing reordered, duplicated or skipped.
OrderPreserved ==
    (pc = "done" /\ fn = "pages" /\ Len(pages) >= 1) =>
        /\ outcome.type = "return"
        /\ HoldsPagesInOrder(pdf.pages, pages)
        /\ HoldsPagesInOrder(outcome.value.blob.bytes, pages)

OrderPreservedWitness ==
    /\ pc = "done"
    /\ fn = "pages"
    /\ pages = <<"<cover/>", "<data/>", "<summary/>">>

\* C2: at most one temporary container is attached to the document body at
\* any time: the container of page i is removed before that of page i+1 is
\* attached.
AtMostOneLiveSurface == Cardinality(body) <= 1

AtMostOneLiveSurfaceWitness ==
    /\ fn = "pages"
    /\ pc = "capture"
    /\ idx = 2
    /\ body = {tempDiv}
    /\ Destroys(1) = 1

\* C3: in both functions the container of every page is created exactly once
\* and destroyed exactly once, and it is destroyed by the time the caller
\* gets the outcome, also when the page's capture or assembly threw.
SurfaceExactlyOnce ==
    /\ \A i \in PageIndexes :
         /\ Creates(i) <= 1
         /\ Destroys(i) <= Creates(i)
         /\ Captures(i) >= 1 => Creates(i) = 1
    /\ outcome # Pending =>
         /\ body = {}
         /\ \A i \in PageIndexes : Destroys(i) = Creates(i)

SurfaceExactlyOnceWitness ==
    /\ fn = "html"
    /\ pc = "failed"
    /\ outcome.type = "throw"
    /\ CountEv(log, <<"captureFailed", 1>>) = 1
    /\ Creates(1) = 1

\* C4: when the capture fails on page k of N, the run ends with k containers
\* created and k destroyed, none created for pages k+1..N, no page captured
\* twice, and no result returned.
CleanupOnCaptureFailure ==
    \A k \in PageIndexes :
        (pc = "failed" /\ fn = "pages"
            /\ CountEv(log, <<"captureFailed", k>>) = 1) =>
            /\ NumEv("create") = k
            /\ NumEv("destroy") = k
            /\ \A i \in PageIndexes : i > k => Creates(i) = 0
            /\ \A i \in PageIndexes : Captures(i) <= 1
            /\ outcome.type = "throw"

CleanupOnCaptureFailureWitness ==
    /\ pc = "failed"
    /\ fn = "pages"
    /\ Len(pages) = 3
    /\ CountEv(log, <<"captureFailed", 2>>) = 1

\* C5: a run that fails returns no result; a result is returned only by a
\* run in which nothing threw, and it covers every input page.
NoResultOnFailure ==
    /\ pc = "failed" => outcome.type = "throw"
    /\ SomethingThrew => outcome.type # "return"
    /\ (outcome.type = "return" /\ Len(pages) >= 1) =>
         HoldsPagesInOrder(outcome.value.blob.bytes, pages)

NoResultOnFailureWitness ==
    /\ pc = "failed"
    /\ fn = "pages"
    /\ Len(pages) = 2
    /\ CountEv(log, <<"placeFailed", 2>>) = 1
    /\ NumEv("addImage") = 1

\* C6: a run on an empty list of pages is rejected: it fails, saves no file
\* and returns no result.
EmptyInputRejected ==
    (fn = "pages" /\ pages = <<>> /\ pc # "idle") =>
        /\ saved = <<>>
        /\ Terminal => (pc = "failed" /\ outcome.type = "throw")

\* C7 as stated: once k >= 1 pages were appended the document has exactly k
\* pages, and the document never has a page without an image.
PageCountEqualsAppended ==
    (fn = "pages" /\ pdf # Undefined) =>
        /\ NumEv("addImage") >= 1 => Len(pdf.pages) = NumEv("addImage")
        /\ \A p \in 1..Len(pdf.pages) : pdf.pages[p] # <<>>

\* Between an iteration's new page (385-388) and its image (392), and in a
\* run that failed there, the last page of the document is still empty.
InAppendWindow ==
    \/ pc \in {"toDataURL", "addImage"}
    \/ NumEv("encodeFailed") + NumEv("placeFailed") > 0

\* C7 as amended: the first k pages of the document are the k pages appended
\* so far, each holding exactly one image, and at most one empty page follows
\* them; once k >= 1 pages were appended, and outside the window between a
\* later iteration's addPage and its addImage, the document has exactly k
\* pages; before the first append it has its one initial page, empty.
PageCountBetweenAppends ==
    (fn = "pages" /\ pdf # Undefined) =>
        LET k == NumEv("addImage") IN
        /\ Len(pdf.pages) \in {k, k + 1}
        /\ \A p \in 1..Len(pdf.pages) :
             Len(pdf.pages[p]) = IF p <= k THEN 1 ELSE 0
        /\ (k >= 1 /\ ~InAppendWindow) => Len(pdf.pages) = k
        /\ k = 0 => Len(pdf.pages) = 1

PageCountBetweenAppendsWitness ==
    /\ fn = "pages"
    /\ pc = "capture"
    /\ NumEv("addImage") = 2
    /\ Len(pdf.pages) = 2

\* C8: when the renderer fails, the error the caller receives is of the
\* renderer's kind (RenderFailure).
RenderFailureIdentified ==
    (pc = "failed" /\ NumEv("captureFailed") > 0) =>
        /\ outcome.type = "throw"
        /\ outcome.error.kind = "RenderFailure"

\* C9: the document is serialized once per run: the saved file and the
\* returned blob come from the same serialization.
SerializedOnce ==
    /\ Len(serials) <= 1
    /\ pc = "done" =>
         /\ Len(saved) = 1
         /\ outcome.value.blob.id = saved[1].blob.id

\* C10: in a successful run the object URL refers to the blob instance that is
\* returned, and the saved file is that same blob.
SavedIsReferencedBlob ==
    pc = "done" =>
        /\ \E n \in 1..Len(objectURLs) :
             /\ objectURLs[n].url = outcome.value.url
             /\ objectURLs[n].blob = outcome.value.blob
        /\ Len(saved) = 1
        /\ saved[1].blob = outcome.value.blob

\* The rendering, assembling and packaging events of a run, in the order they
\* happened (failures and the removal of containers left out).
StageEvents ==
    SelectSeq(log, LAMBDA e : e[1] \notin FailureEvents \cup {"destroy"})

IsPrefix(s, t) == Len(s) <= Len(t) /\ SubSeq(t, 1, Len(s)) = s

\* What a run of generatePDFFromPages on n pages does, from page i on.
RECURSIVE ExpectedEvents(_, _)
ExpectedEvents(i, n) ==
    IF i > n
      THEN << <<"save", 0>>, <<"output", 0>>, <<"url", 0>> >>
      ELSE << <<"create", i>>, <<"capture", i>>, <<"captured", i>> >>
           \o (IF i > 1 THEN << <<"addPage", i>> >> ELSE <<>>)
           \o << <<"addImage", i>> >>
           \o ExpectedEvents(i + 1, n)

\* C11: a run of generatePDFFromPages on N pages goes strictly page by page:
\* page i is captured, then placed in the document, before anything is done
\* for page i+1; the document is changed only by that one placement per page
\* (page p of the document holds what iteration p placed); the document is
\* serialized only after all N pages were placed.
StagesInOrder ==
    fn = "pages" =>
        /\ IsPrefix(StageEvents, ExpectedEvents(1, Len(pages)))
        /\ pdf # Undefined =>
             /\ Len(pdf.pages) = 1 + NumEv("addPage")
             /\ \A p \in 1..Len(pdf.pages) :
                  Len(pdf.pages[p]) = CountEv(log, <<"addImage", p>>)
        /\ NumEv("save") + NumEv("output") > 0 =>
             NumEv("addImage") = Len(pages)

StagesInOrderWitness ==
    /\ fn = "pages"
    /\ pc = "createURL"
    /\ Len(pages) = 3
    /\ NumEv("addImage") = 3
    /\ NumEv("output") = 1

\* C12: html2canvas is not called on a container before the content of that
\* container has settled (its sub-resources loaded, or a settle delay or
\* signal waited for) after its markup was inserted.
CaptureAfterSettle ==
    [][(pc \in {"capture", "h_capture"} /\ pc' \in {"capturing", "h_capturing"})
         => settled]_vars

\* The orientation of the running call: generatePDFFromPages is portrait
\* (346), generateFromHTML takes it from the merged options.
Orientation == IF fn = "pages" THEN "portrait" ELSE opts.orientation

\* The 96-DPI reference size of the A4 page of an orientation.
RefWidthPx(o) == IF o = "landscape" THEN LandscapeWidthPx ELSE PortraitWidthPx
RefHeightPx(o) == IF o = "landscape" THEN LandscapeHeightPx ELSE PortraitHeightPx

\* The surface of the running call has the size of the orientation's page.
SurfaceOfOrientation(node, o) ==
    \/ node.unit = "px" /\ node.width = RefWidthPx(o)
                        /\ node.height = RefHeightPx(o)
    \/ node.unit = "mm" /\ o = "portrait" /\ node.width = PageWidthMm
                        /\ node.height = PageHeightMm

\* Every image in the document covers the page of the orientation, in mm.
PlacedOfOrientation(doc, o) ==
    \A p \in 1..Len(doc.pages) : \A n \in 1..Len(doc.pages[p]) :
        /\ doc.pages[p][n].w = IF o = "landscape" THEN LandscapeWidthMm
                                                  ELSE PageWidthMm
        /\ doc.pages[p][n].h = IF o = "landscape" THEN LandscapeHeightMm
                                                  ELSE PageHeightMm

\* C13: every canvas captured is exactly twice the 96-DPI reference size of
\* the page in use (1588x2246 portrait, 2246x1588 landscape), and the capture,
\* the container and the page size in millimetres are of one orientation.
RasterTwiceReference ==
    canvas # Undefined =>
        /\ canvas.w = 2 * RefWidthPx(Orientation)
        /\ canvas.h = 2 * RefHeightPx(Orientation)
        /\ SurfaceOfOrientation(tempDiv, Orientation)
        /\ pdf # Undefined => /\ pdf.orientation = Orientation
                              /\ PlacedOfOrientation(pdf, Orientation)

\* Whatever the scale, container, capture and placement are of one
\* orientation, and the canvas is a whole multiple of the reference size.
OneOrientation ==
    canvas # Undefined =>
        /\ \E s \in 1..3 : /\ canvas.w = s * RefWidthPx(Orientation)
                           /\ canvas.h = s * RefHeightPx(Orientation)
        /\ SurfaceOfOrientation(tempDiv, Orientation)
        /\ pdf # Undefined => /\ pdf.orientation = Orientation
                              /\ PlacedOfOrientation(pdf, Orientation)

\* C14: whatever options object generateFromHTML is called with, and in
\* generatePDFFromPages, the capture is made at a scale of at least 2.
CaptureScaleAtLeastTwo ==
    canvas # Undefined =>
        canvas.w \div RefWidthPx(Orientation) >= 2

Abs(n) == IF n < 0 THEN -n ELSE n

\* The pixel aspect ratio w_px : h_px equals W_mm : H_mm within 1e-3.
AspectWithin(wpx, hpx, wmm, hmm) ==
    Abs(wpx * hmm - hpx * wmm) * 1000 <= hpx * hmm

\* C15: the pixel aspect ratio of every captured canvas, and of every image
\* placed in the document, equals the width : height of the page it is
\* captured for and placed on (210x297 mm portrait, 297x210 mm landscape)
\* within 1e-3: |w_px * H_mm - h_px * W_mm| * 1000 <= h_px * H_mm.
AspectFidelity ==
    /\ canvas # Undefined =>
         IF Orientation = "landscape"
           THEN AspectWithin(canvas.w, canvas.h,
                             LandscapeWidthMm, LandscapeHeightMm)
           ELSE AspectWithin(canvas.w, canvas.h, PageWidthMm, PageHeightMm)
    /\ pdf # Undefined =>
         \A p \in 1..Len(pdf.pages) : \A n \in 1..Len(pdf.pages[p]) :
            LET pl == pdf.pages[p][n] IN
            AspectWithin(pl.img.w, pl.img.h, pl.w, pl.h)

AspectFidelityWitness ==
    /\ fn = "html"
    /\ pc = "h_output"
    /\ opts.orientation = "landscape"
    /\ Len(pdf.pages[1]) = 1
    /\ pdf.pages[1][1].img.w = 3 * LandscapeWidthPx
    /\ pdf.pages[1][1].w = LandscapeWidthMm

\* C16: an image whose aspect ratio does not match the page is not placed:
\* the assembling step of generatePDFFromPages, handed a canvas that does not
\* match 210 x 297, ends with an AssemblyFailure, and no page of the document
\* ever holds a mismatching image.
MismatchingImageRejected ==
    /\ (fn = "pages" /\ pc = "finally" /\ NumEv("encodeFailed") = 0
          /\ ~AspectWithin(canvas.w, canvas.h, PageWidthMm, PageHeightMm)) =>
         /\ completion.type = "throw"
         /\ completion.error.kind = "AssemblyFailure"
    /\ pdf # Undefined =>
         \A p \in 1..Len(pdf.pages) : \A n \in 1..Len(pdf.pages[p]) :
            AspectWithin(pdf.pages[p][n].img.w, pdf.pages[p][n].img.h,
                         PageWidthMm, PageHeightMm)

\* C17: nothing of an earlier run is left in a later one: whatever the earlier
\* runs were, a later successful run on N pages returns a document of exactly
\* N pages, holding that run's pages and nothing else.
FreshDocumentPerRun ==
    (run >= 2 /\ pc = "done") =>
        /\ Len(pdf.pages) = Len(pages)
        /\ HoldsPagesInOrder(outcome.value.blob.bytes, pages)

\* C18: when removeChild fails in the finally block, the caller gets that
\* failure: the run ends with an error that names it, never with a result.
TeardownFailureReported ==
    (NumEv("destroyFailed") > 0 /\ Terminal) =>
        /\ pc = "failed"
        /\ outcome.type = "throw"
        /\ outcome.error.message \in
             {"NotFoundError", "PDF generation failed: NotFoundError"}

TeardownFailureReportedWitness ==
    /\ pc = "failed"
    /\ fn = "html"
    /\ NumEv("destroyFailed") = 1
    /\ NumEv("save") = 1
    /\ outcome.type = "throw"

\* C19: the component releases the object URL of a run when a later run's URL
\* replaces it: once the component has taken the outcome of a run, at most
\* one created object URL is unreleased.
AtMostOneUnreleasedURL == pc = "idle" => Cardinality(liveURLs) <= 1

\* Event a happened, and event b after it.
Precedes(a, b) ==
    \E m, n \in 1..Len(log) : m < n /\ log[m] = a /\ log[n] = b

\* C20: in generatePDFFromPages no page is inserted for the first page: its
\* image goes on the page the document starts with; for every later page i a
\* page is inserted, after the capture of page i has succeeded and before the
\* image of page i is placed; every image is placed on the page of its
\* index, at (0, 0), 210 x 297.
FirstPageReused ==
    (fn = "pages" /\ pdf # Undefined) =>
        /\ CountEv(log, <<"addPage", 1>>) = 0
        /\ \A i \in PageIndexes :
             /\ CountEv(log, <<"addPage", i>>) > 0 =>
                  /\ i > 1
                  /\ Precedes(<<"captured", i>>, <<"addPage", i>>)
             /\ CountEv(log, <<"addImage", i>>) > 0 =>
                  /\ i > 1 => Precedes(<<"addPage", i>>, <<"addImage", i>>)
                  /\ Len(pdf.pages) >= i
                  /\ Len(pdf.pages[i]) = 1
                  /\ pdf.pages[i][1].img.src = pages[i]
        /\ \A p \in 1..Len(pdf.pages) : \A n \in 1..Len(pdf.pages[p]) :
             /\ pdf.pages[p][n].x = 0
             /\ pdf.pages[p][n].y = 0
             /\ pdf.pages[p][n].w = PageWidthMm
             /\ pdf.pages[p][n].h = PageHeightMm

FirstPageReusedWitness ==
    /\ fn = "pages"
    /\ pc = "finally"
    /\ idx = 2
    /\ completion = Normal
    /\ CountEv(log, <<"addImage", 2>>) = 1
    /\ Len(pdf.pages) = 2

InProgress == pc \notin {"idle", "done", "failed"}

\* C21: every run that was started ends, returned or failed, provided every
\* promise it awaits settles; and when it has ended no container is attached
\* to the body.
RunTerminates == InProgress ~> (Terminal /\ body = {})

RunTerminatesWitness ==
    /\ Terminal
    /\ body = {}
    /\ run = 2
    /\ fn = "pages"
    /\ Len(pages) = 3
    /\ NumEv("destroy") = 3

\* C22: a run that fails has saved no file and created no object URL.
NothingPersistedOnFailure ==
    pc = "failed" => /\ saved = <<>>
                     /\ objectURLs = <<>>

\* C24: in a component generation runs never overlap: while a run is in
\* progress isGenerating is true and the buttons that start a run are
\* disabled, so at most one run handler is in flight and at most one
\* container is attached to the body.
RunsNeverOverlap ==
    /\ Cardinality(GenerationsInFlight) <= 1
    /\ Cardinality(body) <= 1
    /\ pc # "idle" => /\ isGenerating
                      /\ Cardinality(GenerationsInFlight) = 1

RunsNeverOverlapWitness ==
    /\ mounted = "App"
    /\ run = 2
    /\ pc = "h_capturing"
    /\ isGenerating
    /\ Cardinality(body) = 1
    /\ success # ""

\* C25: isGenerating is true only while a run is in progress, and every run
\* a component started ends with isGenerating set back to false, whether it
\* succeeded or failed.
GeneratingResets ==
    /\ [](isGenerating => pc # "idle")
    /\ [](pc = "idle" => ~isGenerating /\ ButtonEnabled(isGenerating))
    /\ isGenerating ~> ~isGenerating

GeneratingResetsWitness ==
    /\ ~isGenerating
    /\ pc = "idle"
    /\ run = 2
    /\ error # ""
    /\ success # ""

\* C26: the error message and the success message of a component are never
\* both shown.
ErrorXorSuccess == ~(error # "" /\ success # "")

\* C27: every entry of templateData.snippetData belongs to a snippet that is
\* in the snippet list, and no two entries have the same name.
SnippetDataOfListedSnippets ==
    /\ \A i \in 1..Len(snippetData) :
         \E s \in SeqRange(pdfSnippets) : s.name = snippetData[i].name
    /\ \A i, j \in 1..Len(snippetData) :
         snippetData[i].name = snippetData[j].name => i = j

\* C28: when a load of the local file completes, the placeholder is replaced
\* in the text of the editor as it is then, edits made during the load
\* included.
LoadKeepsEdits ==
    [][(LocalLoadsInFlight' # LocalLoadsInFlight /\ pending' \subseteq pending
          /\ localContent' # "")
         => htmlContent' = ReplaceFirst(htmlContent, Placeholder,
                                        LoadedText(localContent'))]_vars

\* C23: when the capture of a page fails and the removal of that page's
\* container fails too, the caller gets the error of the capture.
CaptureErrorSurvivesTeardown ==
    (pc = "failed" /\ NumEv("captureFailed") > 0
                   /\ NumEv("destroyFailed") > 0) =>
        /\ outcome.type = "throw"
        /\ outcome.error.message \in
             Messages \cup {"PDF generation failed: " \o m : m \in Messages}

====
